---- MODULE Spec2Model ----
(***************************************************************************)
(* A model of ipywidgets_jsonschema/form.py: the Form facade, the          *)
(* recursive schema compiler (_construct) and the getter / setter /        *)
(* resetter / observer protocol of the form elements it builds.            *)
(*                                                                         *)
(* JSON data is a tagged record [t, v]:                                    *)
(*   [t |-> "int",  v |-> n]            an integer                         *)
(*   [t |-> "str",  v |-> <<c1,..>>]    a string, as a sequence of chars   *)
(*   [t |-> "arr",  v |-> <<d1,..>>]    a list                             *)
(*   [t |-> "obj",  v |-> [k |-> d]]    a dict                             *)
(*   [t |-> "null", v |-> 0]            None                               *)
(* A schema node is a record holding the JSON Schema keys it declares; an  *)
(* object schema also carries `keys`, the iteration order of its           *)
(* `properties` dict.                                                      *)
(***************************************************************************)
EXTENDS Integers, Sequences, FiniteSets, TLC

VARIABLES
    sid,                        \* which schema the Form was built from
    preconstruct_array_items,   \* Form.preconstruct_array_items
    form,                       \* state of Form._form_element (the tree)
    observers,                  \* Form._observers
    called,                     \* handlers invoked during the last operation
    compiled,                   \* the last operation compiled an array entry
    last                        \* the last operation: [op, err]

vars == <<sid, preconstruct_array_items, form, observers, called, compiled,
          last>>

-----------------------------------------------------------------------------
(* Bounds of the model *)

MaxInt    == 1      \* integers offered as input are 0..MaxInt
MaxStrLen == 2      \* strings offered as input have at most this length
MaxLen    == 1      \* lists offered as input have at most this length
MaxPool   == 2      \* add clicks stop compiling new children at this pool size
MaxObs    == 2      \* at most this many Form.observe registrations

-----------------------------------------------------------------------------
(* JSON values *)

IntV(n)  == [t |-> "int", v |-> n]
StrV(s)  == [t |-> "str", v |-> s]
ArrV(s)  == [t |-> "arr", v |-> s]
ObjV(f)  == [t |-> "obj", v |-> f]
Null     == [t |-> "null", v |-> 0]

LowerChars == {"a"}
UpperChars == {"A"}
Chars      == LowerChars \cup UpperChars

Min2(a, b) == IF a < b THEN a ELSE b
Max2(a, b) == IF a > b THEN a ELSE b

\* The result of running a piece of code: the new state of the element it
\* ran on, how many times trigger_observers ran, and the exception raised.
R(st, fired, err) == [st |-> st, fired |-> fired, err |-> err]

-----------------------------------------------------------------------------
(* Regular expressions: the patterns the schemas below use *)

AllIn(s, C)  == \A i \in 1..Len(s) : s[i] \in C
SomeIn(s, C) == \E i \in 1..Len(s) : s[i] \in C

\* re.fullmatch(pattern, val): the whole string must match
re_fullmatch(pattern, s) ==
    CASE pattern = "^[a-z]+$" -> Len(s) > 0 /\ AllIn(s, LowerChars)
      [] pattern = "[a-z]+"   -> Len(s) > 0 /\ AllIn(s, LowerChars)
      [] pattern = ".*"       -> \A i \in 1..Len(s) : s[i] # "\n"

\* re.search(pattern, val), which the validator uses for `pattern`
re_search(pattern, s) ==
    CASE pattern = "^[a-z]+$" -> Len(s) > 0 /\ AllIn(s, LowerChars)
      [] pattern = "[a-z]+"   -> SomeIn(s, LowerChars)
      [] pattern = ".*"       -> TRUE

-----------------------------------------------------------------------------
(* The schemas the Form is built from *)

IntegerSchema == [type |-> "integer"]

SchemaIds == {"ab", "arr12", "arrmax", "anyAB", "anyAmb",
              "pat", "patU", "objArr", "objVar", "objObj", "arrBad",
              "anyPat", "intLow", "intMax", "intBoth"}

\* the forms that are observed: an array, a variant, an array of arrays
ObsSchemaIds == {"arr12", "anyAB", "arrArr"}

\* the values given to the preconstruct_array_items option
PreChoices == {0, 2}

SchemaOf(id) ==
    CASE id = "ab" ->
           [type |-> "object", keys |-> <<"a", "b">>,
            properties |-> [a |-> [type |-> "integer", default |-> IntV(1)],
                            b |-> [type |-> "integer", default |-> IntV(2)]]]
      [] id = "arr12" ->
           [type |-> "array", minItems |-> 1, maxItems |-> 2,
            items |-> [type |-> "integer", default |-> IntV(1)]]
      [] id = "arrmax" ->
           [type |-> "array", items |-> IntegerSchema, maxItems |-> 1]
      [] id = "anyAB" ->
           [anyOf |-> << [title |-> "A", type |-> "integer"],
                         [title |-> "B", type |-> "string"] >>]
      [] id = "anyAmb" ->
           [anyOf |-> << [title |-> "A", type |-> "integer"],
                         [title |-> "B", type |-> "integer", minimum |-> 1] >>]
      [] id = "pat" ->
           [type |-> "string", pattern |-> "^[a-z]+$"]
      [] id = "patU" ->
           [type |-> "string", pattern |-> "[a-z]+", default |-> StrV(<<"a">>)]
      [] id = "objArr" ->
           [type |-> "object", keys |-> <<"arr">>,
            properties |-> [arr |-> [type |-> "array", items |-> IntegerSchema]]]
      [] id = "objVar" ->
           [type |-> "object", keys |-> <<"a", "v">>,
            properties |-> [a |-> [type |-> "integer", default |-> IntV(1)],
                            v |-> [anyOf |-> << [title |-> "A", type |-> "integer",
                                                 default |-> IntV(2)],
                                                [title |-> "B", type |-> "string",
                                                 default |-> StrV(<<"a">>)] >>]]]
      [] id = "anyPat" ->
           [anyOf |-> << [title |-> "A", type |-> "string"],
                         [title |-> "B", type |-> "string",
                          pattern |-> "[a-z]+"] >>]
      [] id = "intLow" ->
           [type |-> "integer", minimum |-> -1]
      [] id = "intMax" ->
           [type |-> "integer", maximum |-> 0]
      [] id = "intBoth" ->
           [type |-> "integer", minimum |-> -1, maximum |-> 1]
      [] id = "arrBad" ->
           [type |-> "array",
            items |-> [anyOf |-> << [type |-> "integer"] >>]]
      [] id = "arrArr" ->
           [type |-> "array", maxItems |-> 1,
            items |-> [type |-> "array", maxItems |-> 1,
                       items |-> IntegerSchema]]
      [] id = "objObj" ->
           [type |-> "object", keys |-> <<"o", "s">>,
            properties |-> [o |-> [type |-> "object", keys |-> <<"x">>,
                                   properties |-> [x |-> [type |-> "integer",
                                                          default |-> IntV(3)]]],
                            s |-> [type |-> "string", pattern |-> "[a-z]+",
                                   default |-> StrV(<<"a">>)]]]

\* the schemas by id, and Form.schema
SchemaTable == [id \in SchemaIds \cup ObsSchemaIds |-> SchemaOf(id)]
schema == SchemaTable[sid]

Has(s, key) == key \in DOMAIN s

\* schema.get("minItems", 0)
MinItemsOf(s) == IF Has(s, "minItems") THEN s.minItems ELSE 0

\* the key _construct dispatches a variant on, "" when there is none
VariantKey(s) ==
    IF Has(s, "anyOf") THEN "anyOf"
    ELSE IF Has(s, "oneOf") THEN "oneOf"
    ELSE IF Has(s, "allOf") THEN "allOf"
    ELSE ""

\* schema[key] of a variant
Alternatives(s) == s[VariantKey(s)]

\* the `names` list of _construct_anyof
Names(s) == [i \in 1..Len(Alternatives(s)) |-> Alternatives(s)[i].title]

\* names.index(title)
NamesIndex(s, title) ==
    CHOOSE i \in 1..Len(Names(s)) :
        /\ Names(s)[i] = title
        /\ \A j \in 1..(i - 1) : Names(s)[j] # title

-----------------------------------------------------------------------------
(* jsonschema.validate: the Draft-07 keywords the schemas use *)

TypeOk(s, d) ==
    Has(s, "type") =>
        CASE s.type = "integer" -> d.t = "int"
          [] s.type = "string"  -> d.t = "str"
          [] s.type = "array"   -> d.t = "arr"
          [] s.type = "object"  -> d.t = "obj"
          [] s.type = "null"    -> d.t = "null"

RECURSIVE Validate(_, _)
Validate(s, d) ==
    /\ TypeOk(s, d)
    /\ (Has(s, "minimum") /\ d.t = "int") => d.v >= s.minimum
    /\ (Has(s, "maximum") /\ d.t = "int") => d.v <= s.maximum
    /\ (Has(s, "pattern") /\ d.t = "str") => re_search(s.pattern, d.v)
    /\ (Has(s, "minItems") /\ d.t = "arr") => Len(d.v) >= s.minItems
    /\ (Has(s, "maxItems") /\ d.t = "arr") => Len(d.v) <= s.maxItems
    /\ (Has(s, "items") /\ d.t = "arr") =>
           \A i \in 1..Len(d.v) : Validate(s.items, d.v[i])
    /\ (Has(s, "properties") /\ d.t = "obj") =>
           \A k \in DOMAIN d.v \cap DOMAIN s.properties :
               Validate(s.properties[k], d.v[k])
    /\ Has(s, "anyOf") =>
           \E i \in 1..Len(s.anyOf) : Validate(s.anyOf[i], d)
    /\ Has(s, "oneOf") =>
           Cardinality({i \in 1..Len(s.oneOf) : Validate(s.oneOf[i], d)}) = 1
    /\ Has(s, "allOf") =>
           \A i \in 1..Len(s.allOf) : Validate(s.allOf[i], d)

-----------------------------------------------------------------------------
(* Python list indexing *)

\* the 1-based position of seq[i] for a Python index i (negative indices
\* count from the end), 0 when Python raises IndexError
PyPos(n, i) ==
    IF i >= 0 THEN (IF i < n THEN i + 1 ELSE 0)
    ELSE (IF n + i >= 0 THEN n + i + 1 ELSE 0)

\* seq[:n], the Python slice (a negative n drops the last -n entries)
PySlice(seq, n) ==
    LET cnt == IF n >= 0 THEN Min2(n, Len(seq)) ELSE Max2(0, Len(seq) + n)
    IN  SubSeq(seq, 1, cnt)

\* seq.pop(index) followed by seq.append(popped); index is 1-based here
PopAppend(seq, index) ==
    [i \in 1..Len(seq) |->
        IF i < index THEN seq[i]
        ELSE IF i < Len(seq) THEN seq[i + 1]
        ELSE seq[index]]

\* seq[i], seq[j] = seq[j], seq[i]
Swap_first_only(seq, i, j) == [seq EXCEPT ![i] = seq[j]]
Swap(seq, i, j) == [seq EXCEPT ![i] = seq[j], ![j] = seq[i]]

\* the position of the first entry of seq equal to x, 0 when there is none
IndexOf(seq, x) ==
    IF \E i \in 1..Len(seq) : seq[i] = x
    THEN CHOOSE i \in 1..Len(seq) :
             seq[i] = x /\ \A j \in 1..(i - 1) : seq[j] # x
    ELSE 0

-----------------------------------------------------------------------------
(* The input controls of the simple elements *)

\* widget.trait_defaults()["value"]: Text() is "", IntText() is 0
trait_default(s) ==
    CASE s.type = "string"  -> StrV(<< >>)
      [] s.type = "integer" -> IntV(0)

\* min_handler and max_handler of minmax_schema_rule, run on a value change
minmax_schema_rule_min_only(s, val) ==
    IF Has(s, "minimum") /\ val.v < s.minimum THEN IntV(s.minimum) ELSE val
minmax_schema_rule(s, val) ==
    LET v1 == IF Has(s, "minimum") /\ val.v < s.minimum
              THEN IntV(s.minimum) ELSE val
    IN  IF Has(s, "maximum") /\ v1.v > s.maximum
        THEN IntV(s.maximum) ELSE v1

\* `widget.value = new` on the control _construct_string/_construct_integer
\* picked: a BoundedIntText clamps, an IntText runs the handlers of
\* minmax_schema_rule when the value changes, a Text stores the value
widget_assign(s, old, new) ==
    IF s.type = "integer"
    THEN IF Has(s, "minimum") /\ Has(s, "maximum")
         THEN IntV(Max2(s.minimum, Min2(s.maximum, new.v)))
         ELSE IF new = old THEN old ELSE minmax_schema_rule(s, new)
    ELSE new

\* pattern_checker of _construct_simple
pattern_checker_search(s, val) ==
    IF s.type # "string" THEN TRUE
    ELSE re_search(IF Has(s, "pattern") THEN s.pattern ELSE ".*", val.v)
pattern_checker(s, val) ==
    IF s.type # "string" THEN TRUE
    ELSE re_fullmatch(IF Has(s, "pattern") THEN s.pattern ELSE ".*", val.v)

\* what `raise FormError(f"... '{schema['pattern']}'")` raises
PatternError(s) == IF Has(s, "pattern") THEN "FormError" ELSE "KeyError"

\* _construct_simple._setter
simple_setter(s, st, d) ==
    IF pattern_checker(s, d)
    THEN R([st EXCEPT !.value = widget_assign(s, st.value, d)], 0, "none")
    ELSE R(st, 0, PatternError(s))

\* _construct_simple._resetter
simple_resetter_nodefault(s, st) ==
    R([st EXCEPT !.value = widget_assign(s, st.value, trait_default(s))], 0, "none")
simple_resetter(s, st) ==
    IF Has(s, "default")
    THEN R([st EXCEPT !.value = widget_assign(s, st.value, s.default)], 0, "none")
    ELSE LET v0 == widget_assign(s, st.value, trait_default(s))
             v1 == IF Has(s, "minimum")
                   THEN widget_assign(s, v0, IntV(s.minimum)) ELSE v0
             v2 == IF Has(s, "maximum")
                   THEN widget_assign(s, v1, IntV(s.maximum)) ELSE v1
         IN  R([st EXCEPT !.value = v2], 0, "none")

\* _construct_simple._getter: [err, v]
simple_getter(s, st) ==
    IF ~pattern_checker(s, st.value)
    THEN [err |-> PatternError(s), v |-> Null]
    ELSE [err |-> "none", v |-> st.value]

\* _construct_simple: a constant element for `const`, else the control
\* after the _resetter() call of line 326
construct_simple(s) ==
    IF Has(s, "const")
    THEN R([k |-> "const"], 0, "none")
    ELSE simple_resetter(s, [k |-> "simple", value |-> trait_default(s),
                             handlers |-> {}])

-----------------------------------------------------------------------------
(* The schema compiler and the form elements it builds.                    *)
(* The state of an element is                                              *)
(*   [k |-> "simple", value, handlers]            one input control;       *)
(*        handlers: the (h, n, t) given to widget.observe                  *)
(*   [k |-> "const"]                              no control               *)
(*   [k |-> "object", elements]                   elements: key -> state   *)
(*   [k |-> "array", elements, element_size, vbox]                         *)
(*        elements: the pool, a sequence of [id, e]; vbox: vbox.children,  *)
(*        the ids of the displayed entries followed by the add button      *)
(*   [k |-> "anyof", selector, elements, handlers]                         *)
(*        selector: a title; handlers: those given to selector.observe     *)

Button == 0         \* the "Add entry" button among vbox.children
Failed == [k |-> "failed"]

\* the constructor Form._construct dispatches to
ElementKind(s) ==
    IF VariantKey(s) # "" THEN "anyof"
    ELSE IF ~Has(s, "type") THEN "notype"
    ELSE IF s.type \in {"object", "array", "null"} THEN s.type
    ELSE IF Has(s, "const") THEN "const"
    ELSE "simple"

\* update_widget of _construct_array
update_widget(st) ==
    LET shown == PySlice(st.elements, st.element_size)
    IN  [st EXCEPT !.vbox = [i \in 1..Len(shown) |-> shown[i].id] \o <<Button>>]

\* register_observer of a form element: widget.observe on an input control
\* (line 294), nothing on an element without control (line 118), every
\* child of an object (233-235), every pooled child of an array (573-575),
\* the selector and every alternative of a variant (645-648)
RECURSIVE register_observer(_, _, _)
register_observer(s, st, o) ==
    LET kind == ElementKind(s)
    IN  CASE kind = "simple" ->
               [st EXCEPT !.handlers = @ \cup {o}]
          [] kind = "object" ->
               [st EXCEPT !.elements =
                    [key \in DOMAIN st.elements |->
                         register_observer(s.properties[key],
                                           st.elements[key], o)]]
          [] kind = "array" ->
               [st EXCEPT !.elements =
                    [i \in 1..Len(st.elements) |->
                         [id |-> st.elements[i].id,
                          e  |-> register_observer(s.items,
                                                   st.elements[i].e, o)]]]
          [] kind = "anyof" ->
               [st EXCEPT !.handlers = @ \cup {o},
                          !.elements =
                    [i \in 1..Len(st.elements) |->
                         register_observer(Alternatives(s)[i],
                                           st.elements[i], o)]]
          [] OTHER -> st

\* add_entry, lines 457-459: the observers of the form are registered on
\* the child just compiled
RECURSIVE register_existing(_, _, _)
register_existing_skipped(s, st, obs) == st
register_existing(s, st, obs) ==
    IF obs = << >> THEN st
    ELSE register_existing(s, register_observer(s, st, obs[1]), Tail(obs))

RECURSIVE construct(_), resetter(_, _), setter(_, _, _), getter(_, _)
RECURSIVE construct_object_loop(_, _, _), construct_object_child(_, _, _, _)
RECURSIVE add_entry(_, _), add_entry_insert(_, _, _), add_entry_reset(_, _, _)
RECURSIVE add_entry_show(_, _, _, _, _)
RECURSIVE construct_array_loop(_, _, _), construct_array_added(_, _, _)
RECURSIVE construct_array(_), construct_array_sized(_, _)
RECURSIVE construct_anyof_loop(_, _, _), construct_anyof_child(_, _, _, _)
RECURSIVE object_setter_loop(_, _, _, _, _), object_setter_child(_, _, _, _, _, _)
RECURSIVE object_resetter_loop(_, _, _, _), object_resetter_child(_, _, _, _, _)
RECURSIVE array_setter_loop(_, _, _, _, _), array_setter_added(_, _, _, _, _)
RECURSIVE array_setter_item(_, _, _, _, _, _)
RECURSIVE array_setter_keep_size(_, _, _), array_setter(_, _, _)
RECURSIVE array_resetter(_, _)
RECURSIVE anyof_setter_loop(_, _, _, _, _), anyof_setter_child(_, _, _, _, _, _)
RECURSIVE anyof_resetter_loop(_, _, _, _), anyof_resetter_child(_, _, _, _, _)

\* _construct_object, lines 209-211: one child per property; r is what
\* compiling the i-th property gave
construct_object_loop(s, i, elems) ==
    IF i > Len(s.keys)
    THEN R([k |-> "object", elements |-> elems], 0, "none")
    ELSE construct_object_child(s, i, elems, construct(s.properties[s.keys[i]]))
construct_object_child(s, i, elems, r) ==
    IF r.err # "none" THEN R(Failed, 0, r.err)
    ELSE construct_object_loop(s, i + 1, elems @@ (s.keys[i] :> r.st))

\* add_entry of _construct_array: a new child is compiled when the pool has
\* no spare one (rec), the entry at index element_size is reset (r), the
\* size grows, the observers are triggered and the widget is updated
add_entry(s, st) ==
    IF Has(s, "maxItems") /\ st.element_size = s.maxItems
    THEN R(st, 0, "none")
    ELSE add_entry_insert(s, st,
             IF st.element_size = Len(st.elements)
             THEN construct(s.items) ELSE R(Failed, 0, "none"))
add_entry_insert(s, st, rec) ==
    IF rec.err # "none" THEN R(st, 0, rec.err)
    ELSE add_entry_reset(s, st,
             IF st.element_size = Len(st.elements)
             THEN Append(st.elements,
                         [id |-> Len(st.elements) + 1,
                          e  |-> register_existing(s.items, rec.st, observers)])
             ELSE st.elements)
add_entry_reset_skipped(s, st, els) ==
    IF PyPos(Len(els), st.element_size) = 0
    THEN R([st EXCEPT !.elements = els], 0, "IndexError")
    ELSE add_entry_show(s, st, els, PyPos(Len(els), st.element_size),
             R(els[PyPos(Len(els), st.element_size)].e, 0, "none"))
add_entry_reset(s, st, els) ==
    IF PyPos(Len(els), st.element_size) = 0
    THEN R([st EXCEPT !.elements = els], 0, "IndexError")
    ELSE add_entry_show(s, st, els, PyPos(Len(els), st.element_size),
             resetter(s.items, els[PyPos(Len(els), st.element_size)].e))
add_entry_show(s, st, els, pos, r) ==
    IF r.err # "none"
    THEN R([st EXCEPT !.elements = [els EXCEPT ![pos].e = r.st]], r.fired, r.err)
    ELSE R(update_widget(
               [st EXCEPT !.elements = [els EXCEPT ![pos].e = r.st],
                          !.element_size = st.element_size + 1]),
           r.fired + 1, "none")

\* _construct_array, lines 551-552: the initial add_entry calls
construct_array_loop(s, st, n) ==
    IF n = 0 THEN R(st, 0, "none")
    ELSE construct_array_added(s, n, add_entry(s, st))
construct_array_added(s, n, r) ==
    IF r.err # "none" THEN r
    ELSE construct_array_loop(s, r.st, n - 1)

\* _construct_array, lines 400-554
construct_array(s) ==
    IF ~Has(s, "items") THEN R(Failed, 0, "FormError")
    ELSE construct_array_sized(s,
             construct_array_loop(s,
                 [k |-> "array", elements |-> << >>, element_size |-> 0,
                  vbox |-> <<Button>>],
                 Max2(MinItemsOf(s), preconstruct_array_items)))
construct_array_sized_kept(s, r) ==
    IF r.err # "none" THEN R(Failed, 0, r.err)
    ELSE R(update_widget(r.st), 0, "none")
construct_array_sized(s, r) ==
    IF r.err # "none" THEN R(Failed, 0, r.err)
    ELSE R(update_widget([r.st EXCEPT !.element_size = MinItemsOf(s)]),
           0, "none")

\* _construct_anyof, lines 612-619: one child per alternative
construct_anyof_loop(s, i, elems) ==
    IF i > Len(Alternatives(s))
    THEN R([k |-> "anyof", selector |-> Names(s)[1], elements |-> elems,
            handlers |-> {}],
           0, "none")
    ELSE IF ~Has(Alternatives(s)[i], "title") THEN R(Failed, 0, "FormError")
    ELSE construct_anyof_child(s, i, elems, construct(Alternatives(s)[i]))
construct_anyof_child(s, i, elems, r) ==
    IF r.err # "none" THEN R(Failed, 0, r.err)
    ELSE construct_anyof_loop(s, i + 1, Append(elems, r.st))

\* Form._construct
construct(s) ==
    LET kind == ElementKind(s)
    IN  CASE kind = "anyof"  -> construct_anyof_loop(s, 1, << >>)
          [] kind = "notype" -> R(Failed, 0, "FormError")
          [] kind = "object" -> construct_object_loop(s, 1, << >>)
          [] kind = "array"  -> construct_array(s)
          [] kind = "null"   -> R([k |-> "const"], 0, "none")
          [] OTHER           -> construct_simple(s)

-----------------------------------------------------------------------------
(* Setters, resetters and getters of the compound elements *)

\* _construct_object._setter: set the properties present in _d, reset the
\* others; an exception stops the loop.  r is what the setter or resetter
\* of the i-th property gave
object_setter_loop(s, st, d, i, fired) ==
    IF i > Len(s.keys) THEN R(st, fired, "none")
    ELSE object_setter_child(s, st, d, i, fired,
             IF s.keys[i] \in DOMAIN d.v
             THEN setter(s.properties[s.keys[i]], st.elements[s.keys[i]],
                         d.v[s.keys[i]])
             ELSE resetter(s.properties[s.keys[i]], st.elements[s.keys[i]]))
object_setter_child(s, st, d, i, fired, r) ==
    IF r.err # "none"
    THEN R([st EXCEPT !.elements[s.keys[i]] = r.st], fired + r.fired, r.err)
    ELSE object_setter_loop(s, [st EXCEPT !.elements[s.keys[i]] = r.st],
                            d, i + 1, fired + r.fired)

\* _construct_object._resetter
object_resetter_loop(s, st, i, fired) ==
    IF i > Len(s.keys) THEN R(st, fired, "none")
    ELSE object_resetter_child(s, st, i, fired,
             resetter(s.properties[s.keys[i]], st.elements[s.keys[i]]))
object_resetter_child(s, st, i, fired, r) ==
    IF r.err # "none"
    THEN R([st EXCEPT !.elements[s.keys[i]] = r.st], fired + r.fired, r.err)
    ELSE object_resetter_loop(s, [st EXCEPT !.elements[s.keys[i]] = r.st],
                              i + 1, fired + r.fired)

\* _construct_array._setter, lines 569-571: add_entry (a), then the setter
\* of elements[i] (r), for the i-th item (i is 1-based here)
array_setter_loop(s, st, d, i, fired) ==
    IF i > Len(d.v) THEN R(st, fired, "none")
    ELSE array_setter_added(s, d, i, fired, add_entry(s, st))
array_setter_added(s, d, i, fired, a) ==
    IF a.err # "none" THEN R(a.st, fired + a.fired, a.err)
    ELSE IF i > Len(a.st.elements)
    THEN R(a.st, fired + a.fired, "IndexError")
    ELSE array_setter_item(s, a.st, d, i, fired + a.fired,
             setter(s.items, a.st.elements[i].e, d.v[i]))
array_setter_item(s, st, d, i, fired, r) ==
    IF r.err # "none"
    THEN R([st EXCEPT !.elements[i].e = r.st], fired + r.fired, r.err)
    ELSE array_setter_loop(s, [st EXCEPT !.elements[i].e = r.st], d, i + 1,
                           fired + r.fired)

\* _construct_array._setter: element_size = 0, then the loop
array_setter_keep_size(s, st, d) ==
    array_setter_loop(s, st, d, 1, 0)
array_setter(s, st, d) ==
    array_setter_loop(s, [st EXCEPT !.element_size = 0], d, 1, 0)

\* _construct_array._resetter
array_resetter(s, st) ==
    IF Has(s, "default") THEN array_setter(s, st, s.default)
    ELSE R(st, 0, "none")

\* _construct_anyof._setter: every alternative the validator accepts is
\* selected and set, in declaration order; only ValidationError is caught
anyof_setter_loop(s, st, d, i, fired) ==
    IF i > Len(Alternatives(s)) THEN R(st, fired, "none")
    ELSE IF ~Validate(Alternatives(s)[i], d)
    THEN anyof_setter_loop(s, st, d, i + 1, fired)
    ELSE anyof_setter_child(s, st, d, i, fired,
             setter(Alternatives(s)[i], st.elements[i], d))
anyof_setter_child(s, st, d, i, fired, r) ==
    IF r.err # "none"
    THEN R([st EXCEPT !.selector = Names(s)[i], !.elements[i] = r.st],
           fired + r.fired, r.err)
    ELSE anyof_setter_loop(s,
             [st EXCEPT !.selector = Names(s)[i], !.elements[i] = r.st],
             d, i + 1, fired + r.fired)

\* _construct_anyof._resetter
anyof_resetter_loop(s, st, i, fired) ==
    IF i > Len(st.elements) THEN R(st, fired, "none")
    ELSE anyof_resetter_child(s, st, i, fired,
             resetter(Alternatives(s)[i], st.elements[i]))
anyof_resetter_child(s, st, i, fired, r) ==
    IF r.err # "none"
    THEN R([st EXCEPT !.elements[i] = r.st], fired + r.fired, r.err)
    ELSE anyof_resetter_loop(s, [st EXCEPT !.elements[i] = r.st], i + 1,
                             fired + r.fired)

\* FormElement.setter of the element compiled from s
setter(s, st, d) ==
    LET kind == ElementKind(s)
    IN  CASE kind = "anyof"  -> anyof_setter_loop(s, st, d, 1, 0)
          [] kind = "object" -> object_setter_loop(s, st, d, 1, 0)
          [] kind = "array"  -> array_setter(s, st, d)
          [] kind = "simple" -> simple_setter(s, st, d)
          [] OTHER           -> R(st, 0, "none")

\* FormElement.resetter of the element compiled from s
resetter(s, st) ==
    LET kind == ElementKind(s)
    IN  CASE kind = "anyof"  -> anyof_resetter_loop(s, st, 1, 0)
          [] kind = "object" -> object_resetter_loop(s, st, 1, 0)
          [] kind = "array"  -> array_resetter(s, st)
          [] kind = "simple" -> simple_resetter(s, st)
          [] OTHER           -> R(st, 0, "none")

\* the first exception a sequence of getter results raises, "none" if none
FirstErr(results) ==
    IF \A i \in 1..Len(results) : results[i].err = "none" THEN "none"
    ELSE results[CHOOSE i \in 1..Len(results) :
                     /\ results[i].err # "none"
                     /\ \A j \in 1..(i - 1) : results[j].err = "none"].err

\* FormElement.getter of the element compiled from s: [err, v]
getter(s, st) ==
    LET kind == ElementKind(s)
    IN  CASE kind = "anyof" ->
               LET i == NamesIndex(s, st.selector)
               IN  getter(Alternatives(s)[i], st.elements[i])
          [] kind = "object" ->
               LET rs == [i \in 1..Len(s.keys) |->
                             getter(s.properties[s.keys[i]],
                                    st.elements[s.keys[i]])]
               IN  IF FirstErr(rs) # "none"
                   THEN [err |-> FirstErr(rs), v |-> Null]
                   ELSE [err |-> "none",
                         v |-> ObjV([key \in DOMAIN s.properties |->
                                        rs[IndexOf(s.keys, key)].v])]
          [] kind = "array" ->
               LET act == PySlice(st.elements, st.element_size)
                   rs  == [i \in 1..Len(act) |-> getter(s.items, act[i].e)]
               IN  IF FirstErr(rs) # "none"
                   THEN [err |-> FirstErr(rs), v |-> Null]
                   ELSE [err |-> "none",
                         v |-> ArrV([i \in 1..Len(act) |-> rs[i].v])]
          [] kind = "simple" -> simple_getter(s, st)
          [] kind = "const"  -> [err |-> "none", v |-> s.const]
          [] OTHER           -> [err |-> "none", v |-> Null]

-----------------------------------------------------------------------------
(* The per-entry controls of an array: remove, move earlier, move later *)

\* the guard of remove_entry, lines 476-478
remove_refused_never(s, st) == FALSE
remove_refused(s, st) ==
    Has(s, "minItems") /\ st.element_size = s.minItems

\* the index the `for index, child in enumerate(vbox.children[:-1])` loop of
\* remove_entry ends on (1-based): the position of the entry holding button
\* b, the last position when none holds it, 0 when the loop has no turn
remove_index(st, b) ==
    IF IndexOf(PySlice(st.vbox, -1), b) # 0
    THEN IndexOf(PySlice(st.vbox, -1), b)
    ELSE Len(PySlice(st.vbox, -1))

\* remove_entry; b is the id of the entry whose trash button was clicked
remove_entry(s, st, b) ==
    IF remove_refused(s, st) THEN R(st, 0, "none")
    ELSE LET index == remove_index(st, b)
         IN  IF index = 0 THEN R(st, 0, "UnboundLocalError")
             ELSE IF index > Len(st.elements) THEN R(st, 0, "IndexError")
             ELSE R(update_widget(
                        [st EXCEPT !.elements = PopAppend(st.elements, index),
                                   !.element_size = st.element_size - 1]),
                    1, "none")

\* move(dir)._move; b is the id of the entry whose arrow was clicked
move(s, st, b, dir) ==
    LET items == PySlice(st.vbox, -1)
        i     == IndexOf(items, b)
        newi  == Min2(Max2(i + dir, 1), Len(items))
    IN  IF i = 0 THEN R(update_widget(st), 0, "none")
        ELSE IF i > Len(st.elements) \/ newi > Len(st.elements)
        THEN R(st, 0, "IndexError")
        ELSE R(update_widget([st EXCEPT !.elements = Swap(st.elements, i, newi)]),
               0, "none")

-----------------------------------------------------------------------------
(* What the user can do to the displayed widgets *)

Strings == UNION {[1..n -> Chars] : n \in 0..MaxStrLen}

\* the values a user can type into the control of a simple element
EditValues(s) ==
    CASE s.type = "string"  -> {StrV(x) : x \in Strings}
      [] s.type = "integer" -> {IntV(n) : n \in 0..MaxInt}

\* the pool position of the entry with the given id
IdPos(st, id) == CHOOSE p \in 1..Len(st.elements) : st.elements[p].id = id

\* Every outcome of one user action `op` on one displayed widget of the
\* element: "add" / "remove" / "up" / "down" click a button of an array,
\* "select" picks an option of a variant selector, "edit" types a value
\* into an input control.  An array displays the entries listed in
\* vbox.children, a variant displays the selected alternative.
RECURSIVE Clicks(_, _, _)
Clicks(s, st, op) ==
    LET kind == ElementKind(s)
    IN  CASE kind = "object" ->
               UNION {{R([st EXCEPT !.elements[key] = r.st], r.fired, r.err) :
                          r \in Clicks(s.properties[key], st.elements[key], op)} :
                      key \in DOMAIN s.properties}
          [] kind = "array" ->
               LET shown == PySlice(st.vbox, -1)
                   own ==
                     CASE op = "add" ->
                            IF st.element_size = Len(st.elements)
                               /\ Len(st.elements) >= MaxPool
                            THEN {} ELSE {add_entry(s, st)}
                       [] op = "remove" ->
                            {remove_entry(s, st, shown[j]) : j \in 1..Len(shown)}
                       [] op = "up" ->
                            {move(s, st, shown[j], -1) : j \in 1..Len(shown)}
                       [] op = "down" ->
                            {move(s, st, shown[j], 1) : j \in 1..Len(shown)}
                       [] OTHER -> {}
               IN  own \cup
                   UNION {{R([st EXCEPT !.elements[IdPos(st, shown[j])].e = r.st],
                             r.fired, r.err) :
                              r \in Clicks(s.items,
                                           st.elements[IdPos(st, shown[j])].e, op)} :
                          j \in 1..Len(shown)}
          [] kind = "anyof" ->
               LET i   == NamesIndex(s, st.selector)
                   own == IF op = "select"
                          THEN {R([st EXCEPT !.selector = Names(s)[j]], 0, "none") :
                                    j \in 1..Len(Names(s))}
                          ELSE {}
               IN  own \cup
                   {R([st EXCEPT !.elements[i] = r.st], r.fired, r.err) :
                        r \in Clicks(Alternatives(s)[i], st.elements[i], op)}
          [] kind = "simple" ->
               IF op = "edit"
               THEN {R([st EXCEPT !.value = widget_assign(s, st.value, v)],
                       0, "none") : v \in EditValues(s)}
               ELSE {}
          [] OTHER -> {}

-----------------------------------------------------------------------------
(* The Form facade *)

\* Form.data (getter): the root getter, then the validator
data_getter(s, st) ==
    LET g == getter(s, st)
    IN  IF g.err # "none" THEN g
        ELSE IF ~Validate(s, g.v) THEN [err |-> "ValidationError", v |-> Null]
        ELSE g

\* Form.data (setter): the validator, then the root setter
data_setter_type_only(s, st, d) ==
    IF ~TypeOk(s, d) THEN R(st, 0, "ValidationError")
    ELSE setter(s, st, d)
data_setter(s, st, d) ==
    IF ~Validate(s, d) THEN R(st, 0, "ValidationError")
    ELSE setter(s, st, d)

\* what a handler called by trigger_observers reads as form.data while the
\* _setter of the root array runs: add_entry triggers the observers at once
\* (line 543), before elements[i].setter(item) of line 571
RECURSIVE array_setter_seen(_, _, _, _)
array_setter_seen(s, st, d, i) ==
    IF i > Len(d.v) THEN {}
    ELSE LET a == add_entry(s, st)
             r == setter(s.items, a.st.elements[i].e, d.v[i])
         IN  (IF a.fired > 0 THEN {data_getter(s, a.st)} ELSE {})
             \cup
             (IF a.err # "none" \/ i > Len(a.st.elements) THEN {}
              ELSE IF r.err # "none" THEN {}
              ELSE array_setter_seen(s, [a.st EXCEPT !.elements[i].e = r.st],
                                     d, i + 1))

\* as_tuple, applied to the `names` of an observer
as_tuple(n) == IF n.kind = "str" THEN <<n.name>> ELSE n.names

\* trigger_observers: the handlers it calls
trigger_observers_all_only(obs) ==
    {obs[i].h : i \in {j \in 1..Len(obs) :
                          obs[j].t = "change" /\ obs[j].n.kind = "All"}}
trigger_observers(obs) ==
    {obs[i].h : i \in {j \in 1..Len(obs) :
        /\ obs[j].t = "change"
        /\ \/ obs[j].n.kind = "All"
           \/ \E x \in 1..Len(as_tuple(obs[j].n)) :
                  as_tuple(obs[j].n)[x] = "value"}}

\* the handlers called by an operation in which trigger_observers ran
\* `fired` times
Called(fired) == IF fired > 0 THEN trigger_observers(observers) ELSE {}

\* the handlers a control calls when its value changes: those given to
\* widget.observe for changes of `value`
notify_change(handlers) ==
    {o.h : o \in {x \in handlers :
        /\ x.t = "change"
        /\ \/ x.n.kind = "All"
           \/ \E i \in 1..Len(as_tuple(x.n)) : as_tuple(x.n)[i] = "value"}}

\* the handlers called by the controls of the tree in an operation that
\* took it from st0 to st1: those of every input control and selector
\* whose value it left different.  A pooled child is followed by its id;
\* one compiled by the operation starts as _construct left it
RECURSIVE Notified(_, _, _)
Notified(s, st0, st1) ==
    LET kind == ElementKind(s)
    IN  CASE kind = "simple" ->
               IF st0.value # st1.value THEN notify_change(st1.handlers) ELSE {}
          [] kind = "object" ->
               UNION {Notified(s.properties[key], st0.elements[key],
                               st1.elements[key]) : key \in DOMAIN s.properties}
          [] kind = "array" ->
               UNION {Notified(s.items,
                          IF \E p \in 1..Len(st0.elements) :
                                 st0.elements[p].id = st1.elements[q].id
                          THEN st0.elements[IdPos(st0, st1.elements[q].id)].e
                          ELSE construct(s.items).st,
                          st1.elements[q].e) : q \in 1..Len(st1.elements)}
          [] kind = "anyof" ->
               (IF st0.selector # st1.selector
                THEN notify_change(st1.handlers) ELSE {})
               \cup UNION {Notified(Alternatives(s)[i], st0.elements[i],
                                    st1.elements[i]) : i \in 1..Len(st1.elements)}
          [] OTHER -> {}

-----------------------------------------------------------------------------
(* The inputs offered to the program *)

SeqsUpTo(S, n) == UNION {[1..m -> S] : m \in 0..n}

\* the partial dicts over the given keys, vals[key] being the values of key
RECURSIVE Dicts(_, _)
Dicts(keys, vals) ==
    IF keys = {} THEN {<< >>}
    ELSE LET key  == CHOOSE x \in keys : TRUE
             rest == Dicts(keys \ {key}, vals)
         IN  rest \cup {(key :> v) @@ f : v \in vals[key], f \in rest}

\* values of the type the schema node declares (they may still break its
\* minimum, pattern, minItems or maxItems)
RECURSIVE Typed(_)
Typed(s) ==
    LET kind == ElementKind(s)
    IN  CASE kind = "anyof" ->
               UNION {Typed(Alternatives(s)[i]) : i \in 1..Len(Alternatives(s))}
          [] kind = "object" ->
               {ObjV(f) : f \in Dicts(DOMAIN s.properties,
                                      [key \in DOMAIN s.properties |->
                                          Typed(s.properties[key])])}
          [] kind = "array" ->
               {ArrV(q) : q \in SeqsUpTo(Typed(s.items), MaxLen)}
          [] kind = "simple" /\ s.type = "string" ->
               {StrV(x) : x \in Strings}
          [] kind = "simple" /\ s.type = "integer" ->
               {IntV(n) : n \in 0..MaxInt}
          [] OTHER -> {Null}

\* values assigned to form.data for a form built from s: the typed values,
\* and some values of another type
Candidates(s) ==
    Typed(s) \cup {Null, ObjV([extra |-> IntV(0)]), ArrV(<<Null>>)}

\* the values assigned to form.data, by schema id
Inputs == [id \in DOMAIN SchemaTable |-> Candidates(SchemaTable[id])]

\* the (names, type) arguments given to Form.observe
Filters ==
    { [n |-> [kind |-> "All"], t |-> "change"],
      [n |-> [kind |-> "str", name |-> "value"], t |-> "change"],
      [n |-> [kind |-> "list", names |-> <<"index", "value">>], t |-> "change"] }

-----------------------------------------------------------------------------
(* The state machine *)

\* the operation that took the tree from st0 to st1 compiled an array
\* entry: some pool of st1 is longer than it was (a pool never shrinks)
RECURSIVE Grew(_, _, _)
Grew(s, st0, st1) ==
    LET kind == ElementKind(s)
    IN  CASE kind = "object" ->
               \E key \in DOMAIN s.properties :
                   Grew(s.properties[key], st0.elements[key], st1.elements[key])
          [] kind = "array" ->
               \/ Len(st1.elements) > Len(st0.elements)
               \/ \E q \in 1..Len(st0.elements) :
                      Grew(s.items, st0.elements[q].e,
                           st1.elements[IdPos(st1, st0.elements[q].id)].e)
          [] kind = "anyof" ->
               \E i \in 1..Len(st0.elements) :
                   Grew(Alternatives(s)[i], st0.elements[i], st1.elements[i])
          [] OTHER -> FALSE

\* Form.__init__: the tree compiled from the schema, no observers; there is
\* a Form only when _construct raised nothing
Init ==
    /\ sid \in SchemaIds
    /\ preconstruct_array_items \in PreChoices
    /\ observers = << >>
    /\ construct(schema).err = "none"
    /\ form = construct(schema).st
    /\ called = {}
    /\ compiled = FALSE
    /\ last = [op |-> "init", err |-> "none"]

\* form.data = d
SetData ==
    \E d \in Inputs[sid] :
        LET r == data_setter(schema, form, d)
        IN  /\ form' = r.st
            /\ called' = Called(r.fired) \cup Notified(schema, form, r.st)
            /\ compiled' = Grew(schema, form, r.st)
            /\ last' = [op |-> "set", err |-> r.err]
            /\ UNCHANGED <<sid, preconstruct_array_items, observers>>

\* form.data
GetData ==
    LET g == data_getter(schema, form)
    IN  /\ last' = [op |-> "get", err |-> g.err]
        /\ called' = {}
        /\ compiled' = FALSE
        /\ UNCHANGED <<sid, preconstruct_array_items, form, observers>>

\* the effect r of one user action `op` on a displayed widget
User(op, r) ==
    /\ form' = r.st
    /\ called' = Called(r.fired) \cup Notified(schema, form, r.st)
    /\ compiled' = Grew(schema, form, r.st)
    /\ last' = [op |-> op, err |-> r.err]
    /\ UNCHANGED <<sid, preconstruct_array_items, observers>>

\* a click on the "Add entry" button of a displayed array
AddClick    == \E r \in Clicks(schema, form, "add") : User("add", r)
\* a click on the trash button of a displayed entry
RemoveClick == \E r \in Clicks(schema, form, "remove") : User("remove", r)
\* a click on the arrow-up button of a displayed entry
MoveUp      == \E r \in Clicks(schema, form, "up") : User("up", r)
\* a click on the arrow-down button of a displayed entry
MoveDown    == \E r \in Clicks(schema, form, "down") : User("down", r)
\* a choice in the selector of a displayed variant
Select      == \E r \in Clicks(schema, form, "select") : User("select", r)
\* a value typed into a displayed input control
Edit        == \E r \in Clicks(schema, form, "edit") : User("edit", r)

\* form.observe(handler, names, type); the handler is identified by the
\* order of registration, and each handler comes with another filter
Observe ==
    /\ Len(observers) < MaxObs
    /\ \E f \in Filters :
           /\ \A i \in 1..Len(observers) : observers[i].n # f.n
           /\ observers' = Append(observers,
                                  [h |-> Len(observers) + 1,
                                   n |-> f.n, t |-> f.t])
           /\ form' = register_observer(schema, form,
                                        [h |-> Len(observers) + 1,
                                         n |-> f.n, t |-> f.t])
    /\ called' = {}
    /\ compiled' = FALSE
    /\ last' = [op |-> "observe", err |-> "none"]
    /\ UNCHANGED <<sid, preconstruct_array_items>>

Next ==
    \/ SetData
    \/ GetData
    \/ AddClick
    \/ RemoveClick
    \/ MoveUp
    \/ MoveDown
    \/ Select
    \/ Edit

Spec == Init /\ [][Next]_vars

\* The same program with handlers registered through Form.observe at any
\* time, on the forms the notification properties are about
InitObs ==
    /\ sid \in ObsSchemaIds
    /\ preconstruct_array_items \in PreChoices
    /\ observers = << >>
    /\ construct(schema).err = "none"
    /\ form = construct(schema).st
    /\ called = {}
    /\ compiled = FALSE
    /\ last = [op |-> "init", err |-> "none"]

NextObs ==
    \/ Next
    \/ Observe

SpecObs == InitObs /\ [][NextObs]_vars

-----------------------------------------------------------------------------
(* Vocabulary of the properties *)

\* every node of the element tree with its schema, pooled array children
\* and unselected alternatives included
RECURSIVE Elements(_, _)
Elements(s, st) ==
    LET kind == ElementKind(s)
        self == {[s |-> s, st |-> st]}
    IN  CASE kind = "object" ->
               self \cup UNION {Elements(s.properties[key], st.elements[key]) :
                                    key \in DOMAIN s.properties}
          [] kind = "array" ->
               self \cup UNION {Elements(s.items, st.elements[i].e) :
                                    i \in 1..Len(st.elements)}
          [] kind = "anyof" ->
               self \cup UNION {Elements(Alternatives(s)[i], st.elements[i]) :
                                    i \in 1..Len(st.elements)}
          [] OTHER -> self

ArrayElements == {e \in Elements(schema, form) : ElementKind(e.s) = "array"}

\* the alternatives of a variant whose schema accepts d
Accepting(s, d) ==
    {i \in 1..Len(Alternatives(s)) : Validate(Alternatives(s)[i], d)}

\* d meets a variant more than one of whose alternatives accepts it
RECURSIVE Ambiguous(_, _)
Ambiguous(s, d) ==
    LET kind == ElementKind(s)
    IN  CASE kind = "anyof" ->
               \/ Cardinality(Accepting(s, d)) > 1
               \/ \E i \in Accepting(s, d) : Ambiguous(Alternatives(s)[i], d)
          [] kind = "object" ->
               \E key \in DOMAIN d.v \cap DOMAIN s.properties :
                   Ambiguous(s.properties[key], d.v[key])
          [] kind = "array" ->
               \E i \in 1..Len(d.v) : Ambiguous(s.items, d.v[i])
          [] OTHER -> FALSE

\* every dict of d carries exactly the properties its schema declares
RECURSIVE Complete(_, _)
Complete(s, d) ==
    LET kind == ElementKind(s)
    IN  CASE kind = "anyof" ->
               \A i \in Accepting(s, d) : Complete(Alternatives(s)[i], d)
          [] kind = "object" ->
               /\ DOMAIN d.v = DOMAIN s.properties
               /\ \A key \in DOMAIN d.v : Complete(s.properties[key], d.v[key])
          [] kind = "array" ->
               \A i \in 1..Len(d.v) : Complete(s.items, d.v[i])
          [] OTHER -> TRUE

\* every string of d matches, as a whole, the pattern of its schema node
\* (`.*` when the node declares none)
RECURSIVE FullyMatching(_, _)
FullyMatching(s, d) ==
    LET kind == ElementKind(s)
    IN  CASE kind = "anyof" ->
               \A i \in Accepting(s, d) : FullyMatching(Alternatives(s)[i], d)
          [] kind = "object" ->
               \A key \in DOMAIN d.v \cap DOMAIN s.properties :
                   FullyMatching(s.properties[key], d.v[key])
          [] kind = "array" ->
               \A i \in 1..Len(d.v) : FullyMatching(s.items, d.v[i])
          [] kind = "simple" /\ s.type = "string" ->
               re_fullmatch(IF Has(s, "pattern") THEN s.pattern ELSE ".*", d.v)
          [] OTHER -> TRUE

\* the values that validate against the form's schema
ValidInputsOf ==
    [id \in DOMAIN SchemaTable |->
         {d \in Inputs[id] : Validate(SchemaTable[id], d)}]
ValidInputs == ValidInputsOf[sid]

\* what `form.data = d` followed by a read of form.data gives
SetThenGet(d) == data_getter(schema, data_setter(schema, form, d).st)

-----------------------------------------------------------------------------
(* C1 *)

RECURSIVE Compilable(_)
Compilable(s) ==
    LET kind == ElementKind(s)
    IN  CASE kind = "anyof" ->
               \A i \in 1..Len(Alternatives(s)) :
                   /\ Has(Alternatives(s)[i], "title")
                   /\ Compilable(Alternatives(s)[i])
          [] kind = "object" ->
               \A key \in DOMAIN s.properties : Compilable(s.properties[key])
          [] kind = "array" -> Has(s, "items") /\ Compilable(s.items)
          [] kind = "notype" -> FALSE
          [] OTHER -> TRUE

-----------------------------------------------------------------------------
(* C2 *)

\* C2: in every reachable state, for every value d that does not validate,
\* `form.data = d` raises the validator's error, changes no part of the
\* element tree (widget values, element_size, pool order, displayed
\* entries, selectors) and notifies nobody.
C2_InvalidRejected ==
    \A d \in Inputs[sid] \ ValidInputs :
        data_setter(schema, form, d) = R(form, 0, "ValidationError")

\* an invalid value was assigned to an array form that shows two entries
C2_Witness ==
    /\ sid = "arr12"
    /\ last = [op |-> "set", err |-> "ValidationError"]
    /\ form.element_size = 2

-----------------------------------------------------------------------------
(* C3 *)

\* C3: in every reachable state the value of the root getter validates
\* against the schema, so reading form.data raises nothing.
C3_GetterValid == data_getter(schema, form).err = "none"

-----------------------------------------------------------------------------
(* C4 *)

\* every leaf of the schema declares a default
RECURSIVE AllLeavesDefault(_)
AllLeavesDefault(s) ==
    LET kind == ElementKind(s)
    IN  CASE kind = "anyof" ->
               \A i \in 1..Len(Alternatives(s)) :
                   AllLeavesDefault(Alternatives(s)[i])
          [] kind = "object" ->
               \A key \in DOMAIN s.properties :
                   AllLeavesDefault(s.properties[key])
          [] kind = "array" -> AllLeavesDefault(s.items)
          [] OTHER -> Has(s, "default")

\* the value assembled from the defaults of the leaves: a dict of the
\* properties, minItems copies of the item, the first alternative
RECURSIVE Defaults(_)
Defaults(s) ==
    LET kind == ElementKind(s)
    IN  CASE kind = "anyof" -> Defaults(Alternatives(s)[1])
          [] kind = "object" ->
               ObjV([key \in DOMAIN s.properties |-> Defaults(s.properties[key])])
          [] kind = "array" ->
               ArrV([i \in 1..MinItemsOf(s) |-> Defaults(s.items)])
          [] OTHER -> s.default

\* C4: right after construction, before any other operation, the data of a
\* form whose schema declares a default at every leaf is the value
\* assembled from those defaults.
C4_DefaultsAfterConstruction ==
    (last.op = "init" /\ AllLeavesDefault(schema)) =>
        data_getter(schema, form) = [err |-> "none", v |-> Defaults(schema)]

\* the form of the two-property example right after construction
C4_Witness ==
    /\ sid = "ab"
    /\ last.op = "init"
    /\ data_getter(schema, form).v = ObjV([a |-> IntV(1), b |-> IntV(2)])

-----------------------------------------------------------------------------
(* C5 *)

\* C5: in every reachable state of a form on an object schema, after a
\* successful `form.data = d` every property d omits reads as it did right
\* after construction.
C5_OmittedPropertyReset ==
    \A d \in ValidInputs :
        (ElementKind(schema) = "object"
         /\ data_setter(schema, form, d).err = "none") =>
            \A key \in DOMAIN schema.properties \ DOMAIN d.v :
                getter(schema.properties[key],
                       data_setter(schema, form, d).st.elements[key])
                  = getter(schema.properties[key],
                           construct(schema.properties[key]).st)

-----------------------------------------------------------------------------
(* C6 *)

\* C6: in every reachable state, every array element of the form has
\* 0 <= element_size <= length of its pool.
C6_SizeWithinPool ==
    \A a \in ArrayElements :
        /\ 0 <= a.st.element_size
        /\ a.st.element_size <= Len(a.st.elements)

-----------------------------------------------------------------------------
(* C7 *)

\* the ids of the entries an array displays
Shown(st) == {st.vbox[j] : j \in 1..(Len(st.vbox) - 1)}

\* C7: in every reachable state, every array element respects the bounds
\* its schema declares (element_size >= minItems, element_size <= maxItems),
\* an add click at element_size = maxItems changes nothing of the element,
\* and a remove click on any displayed entry at element_size = minItems
\* changes nothing of the element; neither notifies anybody.
C7_BoundsRespected ==
    \A a \in ArrayElements :
        /\ Has(a.s, "minItems") => a.st.element_size >= a.s.minItems
        /\ Has(a.s, "maxItems") => a.st.element_size <= a.s.maxItems
        /\ (Has(a.s, "maxItems") /\ a.st.element_size = a.s.maxItems) =>
               add_entry(a.s, a.st) = R(a.st, 0, "none")
        /\ (Has(a.s, "minItems") /\ a.st.element_size = a.s.minItems) =>
               \A b \in Shown(a.st) :
                   remove_entry(a.s, a.st, b) = R(a.st, 0, "none")

\* a remove click was refused: the array with minItems = 1 still shows its
\* only entry, and its pool never held a second one
C7_Witness ==
    /\ sid = "arr12"
    /\ last = [op |-> "remove", err |-> "none"]
    /\ form.element_size = 1
    /\ Len(form.elements) = 1

-----------------------------------------------------------------------------
(* C8 *)

\* the first alternative of a variant whose schema accepts d
FirstAccepting(s, d) ==
    CHOOSE i \in Accepting(s, d) : \A j \in Accepting(s, d) : i <= j

\* C8: in every reachable state of a form on a variant, for every value d
\* the schema accepts, after `form.data = d` the selector shows the first
\* alternative accepting d, that alternative's child holds d, and the
\* children of the other alternatives are as they were.
C8_FirstAlternativeOnly ==
    \A d \in ValidInputs :
        ElementKind(schema) = "anyof" =>
            /\ data_setter(schema, form, d).err = "none"
            /\ data_setter(schema, form, d).st.selector
                   = Names(schema)[FirstAccepting(schema, d)]
            /\ getter(Alternatives(schema)[FirstAccepting(schema, d)],
                      data_setter(schema, form, d).st.elements[
                          FirstAccepting(schema, d)])
                   = [err |-> "none", v |-> d]
            /\ \A i \in 1..Len(form.elements) :
                   i # FirstAccepting(schema, d) =>
                       data_setter(schema, form, d).st.elements[i]
                           = form.elements[i]

-----------------------------------------------------------------------------
(* C9 *)

\* the observer was registered for value changes: event type "change", and
\* a name filter that is All or contains "value"
ForValueChanges(o) ==
    /\ o.t = "change"
    /\ \/ o.n.kind = "All"
       \/ o.n.kind = "str" /\ o.n.name = "value"
       \/ o.n.kind = "list" /\ \E x \in 1..Len(o.n.names) : o.n.names[x] = "value"

\* C9: every add click and every remove click that changes an array calls
\* every handler registered for value changes, whenever it was registered.
C9_AddRemoveNotify ==
    [][(last'.op \in {"add", "remove"} /\ last'.err = "none" /\ form' # form) =>
           \A i \in 1..Len(observers) :
               ForValueChanges(observers[i]) => observers[i].h \in called']_vars

\* two handlers were registered once the array had grown to two entries,
\* and the remove click that followed called both
C9_Witness ==
    /\ sid = "arr12"
    /\ last = [op |-> "remove", err |-> "none"]
    /\ Len(form.elements) = 2
    /\ form.element_size = 1
    /\ Len(observers) = 2
    /\ called = {1, 2}

-----------------------------------------------------------------------------
(* C10 *)

\* x matches `^[a-z]+$` or `[a-z]+` as a whole
LowerWord(x) == Len(x) > 0 /\ \A i \in 1..Len(x) : x[i] \in LowerChars

\* the string elements that declare a pattern
PatternElements ==
    {e \in Elements(schema, form) :
        /\ ElementKind(e.s) = "simple"
        /\ e.s.type = "string"
        /\ Has(e.s, "pattern")}

\* C10: in every reachable state, for every string element with a pattern,
\* the getter returns the widget value when it matches the pattern as a
\* whole and raises FormError otherwise, and the setter stores a string
\* that matches as a whole and otherwise raises FormError and leaves the
\* widget value as it was.
C10_PatternGuardsBothPaths ==
    \A e \in PatternElements :
        /\ simple_getter(e.s, e.st) =
               IF LowerWord(e.st.value.v)
               THEN [err |-> "none", v |-> e.st.value]
               ELSE [err |-> "FormError", v |-> Null]
        /\ \A x \in Strings :
               simple_setter(e.s, e.st, StrV(x)) =
                   IF LowerWord(x)
                   THEN R([e.st EXCEPT !.value = StrV(x)], 0, "none")
                   ELSE R(e.st, 0, "FormError")

\* the widget of the `^[a-z]+$` form holds "A" and reading form.data raised
C10_Witness ==
    /\ sid = "pat"
    /\ form.value = StrV(<<"A">>)
    /\ last = [op |-> "get", err |-> "FormError"]

-----------------------------------------------------------------------------
(* C11 *)

\* C11: in every reachable state of a constructed Form, no add click raises
\* FormError, and no `form.data = d`, d a valid value whose strings match
\* their patterns as a whole, raises FormError: the errors of the compiler
\* are raised by the construction or never.
C11_NoLateConstructionError ==
    /\ \A r \in Clicks(schema, form, "add") : r.err # "FormError"
    /\ \A d \in ValidInputs :
           FullyMatching(schema, d) =>
               data_setter(schema, form, d).err # "FormError"

-----------------------------------------------------------------------------
(* C12 *)

\* C12: in every reachable state where reading form.data succeeds with a
\* value d, `form.data = d` raises nothing and a following read of
\* form.data returns d again.
C12_SetOfGetIsIdentity ==
    data_getter(schema, form).err = "none" =>
        /\ data_setter(schema, form, data_getter(schema, form).v).err = "none"
        /\ SetThenGet(data_getter(schema, form).v) = data_getter(schema, form)

-----------------------------------------------------------------------------
(* C13 *)

\* the active entries of an array: elements[:element_size]
Active(st) == PySlice(st.elements, st.element_size)

\* seq without its i-th entry
Without(seq, i) ==
    [j \in 1..(Len(seq) - 1) |-> IF j < i THEN seq[j] ELSE seq[j + 1]]

\* the ids of the pooled children
PoolIds(st) == {st.elements[j].id : j \in 1..Len(st.elements)}

\* C13: in every reachable state, for every array and every entry it
\* displays, a remove click on that entry which is not refused lowers
\* element_size by one, leaves as active entries the former ones without the
\* clicked one, in their order, and keeps the clicked child in the pool
\* behind the active entries, the pool keeping its length and its children.
C13_RemoveTakesClickedEntry ==
    \A a \in ArrayElements :
        \A j \in 1..(Len(a.st.vbox) - 1) :
            LET r == remove_entry(a.s, a.st, a.st.vbox[j])
            IN  (~remove_refused(a.s, a.st) /\ r.err = "none") =>
                    /\ r.st.element_size = a.st.element_size - 1
                    /\ Active(r.st) = Without(Active(a.st), j)
                    /\ Len(r.st.elements) = Len(a.st.elements)
                    /\ PoolIds(r.st) = PoolIds(a.st)
                    /\ \E q \in Max2(1, r.st.element_size + 1)..Len(r.st.elements) :
                           r.st.elements[q].id = a.st.vbox[j]

-----------------------------------------------------------------------------
(* C14 *)

\* how many entries of seq equal x
Count(seq, x) == Cardinality({i \in 1..Len(seq) : seq[i] = x})

\* the values the array getter collects from the active entries
ActiveValues(st) == [i \in 1..Len(Active(st)) |-> Active(st)[i].e]

\* the ids of the active entries
ActiveIds(st) == {Active(st)[i].id : i \in 1..Len(Active(st))}

\* C14: in every reachable state, for every array, every entry it displays
\* and both directions, a move click raises nothing and leaves
\* element_size, the pool length, the pooled children, the active children
\* and the multiset of the active values as they were; on the active entry
\* at position j it swaps the pool entries j and j-1 (j+1), and changes
\* nothing of the pool on the first entry moved earlier and on the last
\* active entry moved later.
C14_MoveSwapsNeighbours ==
    \A a \in ArrayElements :
        \A j \in 1..(Len(a.st.vbox) - 1) : \A dir \in {-1, 1} :
            LET r == move(a.s, a.st, a.st.vbox[j], dir)
                n == a.st.element_size
            IN  /\ r.err = "none"
                /\ r.st.element_size = n
                /\ Len(r.st.elements) = Len(a.st.elements)
                /\ PoolIds(r.st) = PoolIds(a.st)
                /\ ActiveIds(r.st) = ActiveIds(a.st)
                /\ \A i \in 1..Len(ActiveValues(a.st)) :
                       Count(ActiveValues(r.st), ActiveValues(a.st)[i])
                           = Count(ActiveValues(a.st), ActiveValues(a.st)[i])
                /\ j <= n =>
                       r.st.elements =
                           IF (j = 1 /\ dir = -1) \/ (j = n /\ dir = 1)
                           THEN a.st.elements
                           ELSE [a.st.elements EXCEPT
                                    ![j] = a.st.elements[j + dir],
                                    ![j + dir] = a.st.elements[j]]

\* the second entry of a two-entry array was moved up: the child compiled
\* second comes first, and both entries are active
C14_Witness ==
    /\ sid = "arr12"
    /\ last = [op |-> "up", err |-> "none"]
    /\ form.element_size = 2
    /\ form.elements[1].id = 2
    /\ form.elements[2].id = 1

-----------------------------------------------------------------------------
(* C15 *)

\* the lists a data set hands to the setter of the array compiled from s
ArrayInputs(s) == {d \in Typed(s) : Validate(s, d)}

\* C15: in every reachable state, for every array of the form:
\* an add click that is not refused and raises nothing appends one newly
\* compiled child when element_size = len(pool) and otherwise leaves the
\* pool length as it is, the entry at index element_size is the child
\* (pooled or new) after its resetter, and element_size grows by one;
\* remove and move clicks keep the pool length;
\* a data set of n items that raises nothing leaves a pool of
\* max(previous length, n) children and element_size = n.
C15_PoolNeverShrinks ==
    \A a \in ArrayElements :
        LET n    == a.st.element_size
            len  == Len(a.st.elements)
            full == Has(a.s, "maxItems") /\ n = a.s.maxItems
            r    == add_entry(a.s, a.st)
            pos  == PyPos(Len(r.st.elements), n)
        IN  /\ (~full /\ r.err = "none") =>
                   /\ Len(r.st.elements) = IF n = len THEN len + 1 ELSE len
                   /\ \A q \in 1..len : r.st.elements[q].id = a.st.elements[q].id
                   /\ r.st.element_size = n + 1
                   /\ r.st.elements[pos].e =
                          resetter(a.s.items,
                                   IF n = len THEN construct(a.s.items).st
                                   ELSE a.st.elements[pos].e).st
            /\ \A j \in 1..(Len(a.st.vbox) - 1) :
                   /\ Len(remove_entry(a.s, a.st, a.st.vbox[j]).st.elements) = len
                   /\ Len(move(a.s, a.st, a.st.vbox[j], -1).st.elements) = len
                   /\ Len(move(a.s, a.st, a.st.vbox[j], 1).st.elements) = len
            /\ \A d \in ArrayInputs(a.s) :
                   array_setter(a.s, a.st, d).err = "none" =>
                       /\ Len(array_setter(a.s, a.st, d).st.elements)
                              = Max2(len, Len(d.v))
                       /\ array_setter(a.s, a.st, d).st.element_size = Len(d.v)

\* a one-item list was assigned to an array whose pool holds two children:
\* the pool kept both and one is active
C15_Witness ==
    /\ sid = "objArr"
    /\ last = [op |-> "set", err |-> "none"]
    /\ Len(form.elements.arr.elements) = 2
    /\ form.elements.arr.element_size = 1

-----------------------------------------------------------------------------
(* C16 *)

\* C16 as stated: the array element compiled from the schema of any array
\* of the form has, right after its construction, a pool of
\* max(minItems, preconstruct_array_items) children and
\* element_size = minItems (0 when absent).
C16_PoolAfterConstruction ==
    \A a \in ArrayElements :
        construct(a.s).err = "none" =>
            /\ Len(construct(a.s).st.elements)
                   = Max2(MinItemsOf(a.s), preconstruct_array_items)
            /\ construct(a.s).st.element_size = MinItemsOf(a.s)

\* C16 as amended: the pool holds max(minItems, preconstruct_array_items)
\* children, but no more than maxItems when the schema declares it, and
\* element_size = minItems.
C16_PoolAfterConstructionCapped ==
    \A a \in ArrayElements :
        construct(a.s).err = "none" =>
            /\ Len(construct(a.s).st.elements)
                   = IF Has(a.s, "maxItems")
                     THEN Min2(Max2(MinItemsOf(a.s), preconstruct_array_items),
                               a.s.maxItems)
                     ELSE Max2(MinItemsOf(a.s), preconstruct_array_items)
            /\ construct(a.s).st.element_size = MinItemsOf(a.s)

\* the form on the array with maxItems = 1, built with
\* preconstruct_array_items = 2, right after construction: one child
C16_Witness ==
    /\ sid = "arrmax"
    /\ preconstruct_array_items = 2
    /\ last.op = "init"
    /\ Len(form.elements) = 1
    /\ form.element_size = 0

-----------------------------------------------------------------------------
(* C17 *)

\* C17: in every reachable state of a form on an array with a handler
\* registered for value changes, for every valid list d whose assignment
\* raises nothing, each time the handlers are called during `form.data = d`
\* a read of form.data from the handler gives d.
C17_HandlersSeeFinalData ==
    \A d \in ValidInputs :
        (/\ ElementKind(schema) = "array"
         /\ trigger_observers(observers) # {}
         /\ data_setter(schema, form, d).err = "none") =>
            \A g \in array_setter_seen(schema, [form EXCEPT !.element_size = 0],
                                       d, 1) :
                g = [err |-> "none", v |-> d]

-----------------------------------------------------------------------------
(* C18 *)

\* C18: in every reachable state of a form whose schema compiles at every
\* node, for every valid value d whose assignment raises FormError (a
\* string does not match its pattern as a whole), the element tree after
\* the failed `form.data = d` is the tree before it: values, element_size,
\* pool order, displayed entries and selectors.
C18_FailedSetChangesNothing ==
    \A d \in ValidInputs :
        (Compilable(schema) /\ data_setter(schema, form, d).err = "FormError") =>
            data_setter(schema, form, d).st = form

-----------------------------------------------------------------------------
(* C19 *)

\* the integer elements of the form
IntegerElements ==
    {e \in Elements(schema, form) :
        ElementKind(e.s) = "simple" /\ e.s.type = "integer"}

\* 0 satisfies the bounds the schema declares
ZeroAllowed(s) ==
    /\ Has(s, "minimum") => s.minimum <= 0
    /\ Has(s, "maximum") => 0 <= s.maximum

\* C19: in every reachable state, the resetter of every integer element
\* leaves the control at the schema's default when there is one, otherwise
\* at 0 when 0 satisfies the declared bounds, otherwise at the bound nearest
\* to 0.
C19_ResetterValue ==
    \A e \in IntegerElements :
        simple_resetter(e.s, e.st).st.value =
            IF Has(e.s, "default") THEN e.s.default
            ELSE IF ZeroAllowed(e.s) THEN IntV(0)
            ELSE IF Has(e.s, "minimum") /\ e.s.minimum > 0
                 THEN IntV(e.s.minimum)
                 ELSE IntV(e.s.maximum)

-----------------------------------------------------------------------------
(* C20 *)

\* the integer elements bounded from one side only
OneBoundElements ==
    {e \in IntegerElements : Has(e.s, "minimum") # Has(e.s, "maximum")}

\* v satisfies the bound the schema declares
WithinBound(s, v) ==
    /\ Has(s, "minimum") => v >= s.minimum
    /\ Has(s, "maximum") => v <= s.maximum

\* C20: in every reachable state, the control of every integer element with
\* exactly one bound holds a value that satisfies it, and a value typed
\* into the control is stored as entered when it satisfies the bound, as
\* `minimum` when it is below it and as `maximum` when it is above it.
C20_OneBoundClamped ==
    \A e \in OneBoundElements :
        /\ WithinBound(e.s, e.st.value.v)
        /\ \A n \in 0..MaxInt :
               widget_assign(e.s, e.st.value, IntV(n)) =
                   IF WithinBound(e.s, n) THEN IntV(n)
                   ELSE IF Has(e.s, "minimum") THEN IntV(e.s.minimum)
                   ELSE IntV(e.s.maximum)

\* a value was typed into the control of the integer with maximum 0, which
\* holds 0
C20_Witness ==
    /\ sid = "intMax"
    /\ last = [op |-> "edit", err |-> "none"]
    /\ form.value = IntV(0)

-----------------------------------------------------------------------------
(* C21 *)

\* the input controls and the variant selectors of the tree, pooled array
\* children and unselected alternatives included
Controls ==
    {e \in Elements(schema, form) : ElementKind(e.s) \in {"simple", "anyof"}}

\* C21: in every reachable state, every input control and every variant
\* selector of the tree, whenever it was compiled and whether it is
\* displayed or not, calls on a change of its value every handler that was
\* registered with Form.observe for value changes.
C21_EveryControlSubscribed ==
    \A e \in Controls :
        \A i \in 1..Len(observers) :
            ForValueChanges(observers[i]) =>
                observers[i].h \in notify_change(e.st.handlers)

\* a handler was registered on the array of arrays, then a click on the
\* "Add entry" button of the inner array compiled its first integer
\* control, which holds the handler
C21_Witness ==
    /\ sid = "arrArr"
    /\ preconstruct_array_items = 0
    /\ last = [op |-> "add", err |-> "none"]
    /\ compiled
    /\ Len(observers) >= 1
    /\ Len(form.elements) = 1
    /\ Len(form.elements[1].e.elements) = 1
    /\ observers[1] \in form.elements[1].e.elements[1].e.handlers

-----------------------------------------------------------------------------
(* C22 *)

\* every array of the tree st displays the first element_size entries of
\* its pool, in pool order, followed by the add button
DisplayMatchesPool(st) ==
    \A a \in {e \in Elements(schema, st) : ElementKind(e.s) = "array"} :
        a.st.vbox = update_widget(a.st).vbox

\* C22: every operation that completes without an exception on a tree
\* whose arrays display the first element_size entries of their pools
\* followed by the add button leaves a tree whose arrays do so.
C22_DisplayMatchesPool ==
    [][(DisplayMatchesPool(form) /\ last'.err = "none") =>
           DisplayMatchesPool(form')]_vars

-----------------------------------------------------------------------------
(* C23 *)

\* C23: every operation that completes without an exception and changes
\* the value the getter of the root array returns (an add, a remove, a
\* move, a data set, an edit of an entry) calls every handler registered
\* for value changes.
C23_ArrayChangeNotifies ==
    [][(/\ ElementKind(schema) = "array"
        /\ last'.err = "none"
        /\ getter(schema, form') # getter(schema, form)) =>
           \A i \in 1..Len(observers) :
               ForValueChanges(observers[i]) => observers[i].h \in called']_vars

====
